---------------------------- MODULE Spec2Model ----------------------------
(***************************************************************************)
(* Manifest audit pipeline (src/main.py): the retried remote read of       *)
(* get_manifest_content, the BigQueryBatcher buffer, the staged MERGE of   *)
(* execute_merge_query and the fan-out / collect loop of main_handler.     *)
(***************************************************************************)
EXTENDS Integers, Sequences, FiniteSets, TLC

(***************************************************************************)
(* Bounds of the model.  BQ_BATCH_SIZE and MAX_WORKERS are the program's   *)
(* constants (500 and 8 in src/main.py:57-58) scaled down so that the      *)
(* threshold and the pool limit are reached with a handful of records and  *)
(* users.                                                                  *)
(***************************************************************************)
BQ_BATCH_SIZE == 2
MAX_WORKERS == 2
MaxTime == 1

(***************************************************************************)
(* Program constant: stop_after_attempt(3), src/main.py:166.               *)
(***************************************************************************)
STOP_AFTER_ATTEMPT == 3

None == "None"

VARIABLES
    \* ---- get_manifest_content under the tenacity decorator ----
    rc_script,       \* what the remote getContent does at its 1st, 2nd, 3rd invocation
    rc_pc,           \* "calling" | "returned" | "raised"
    rc_attempt,      \* tenacity's attempt_number of the attempt about to run
    rc_invocations,  \* number of times the remote getContent was executed
    rc_out           \* the value returned, or the exception that reached the caller

VARIABLES
    \* ---- main_handler, its worker pool, the batcher and the store ----
    pc,              \* main thread: "start" | "collect" | "done"
    result,          \* what main_handler returned: [msg, code], or NoResult
    all_users,       \* the emails get_all_domain_users returned
    future,          \* per user: "none" | "pending" | "running" | "done"
    futResult,       \* per user: the rows its scan task returned
    collected,       \* the users whose future as_completed has yielded
    buffer,          \* BigQueryBatcher.buffer
    target,          \* rows of the target table
    staging,         \* names of the staging tables that exist in the dataset
    now,             \* the clock (utcnow / timestamp)
    directory,       \* the user entries the directory serves
    \* ---- history, read by the properties only ----
    calls,           \* the execute_merge_query calls of this run, in order
    sinceFlush,      \* rows appended to the buffer since the last sink call
    listCalls        \* number of users().list calls made by this run

VARIABLES
    \* ---- one cursor-following loop, page by page and item by item ----
    lp_mode,         \* "dir": get_all_domain_users and the submit loop; "scan": scan_user_for_manifests
    lp_pages,        \* the pages the remote listing serves, in order
    lp_fail,         \* the page whose list call raises (0: none does)
    lp_auth,         \* outcome of the two get_impersonated_service calls ("scan")
    lp_content,      \* what getContent does for each listed script id ("scan")
    lp_pc,           \* "idle" | "auth" | "list" | "page" | "returned" | "submitted"
    page_token,      \* the token to send: the number of the page it stands for, 0 for None
    lp_items,        \* the items of the current page not yet processed
    lp_acc,          \* users (line 187) or manifest_rows (line 209)
    lp_submitted,    \* the emails passed to executor.submit, in order
    \* ---- history, read by the properties only ----
    lp_seen,         \* the items processed, in order
    lp_listCalls,    \* number of list(...).execute() calls made
    lp_extracted     \* the script ids passed to get_manifest_content, in order

lpVars == <<lp_mode, lp_pages, lp_fail, lp_auth, lp_content, lp_pc, page_token,
            lp_items, lp_acc, lp_submitted, lp_seen, lp_listCalls, lp_extracted>>

rcVars == <<rc_script, rc_pc, rc_attempt, rc_invocations, rc_out>>

poolVars == <<future, futResult>>

storeVars == <<buffer, target, staging, calls, sinceFlush>>

mainVars == <<pc, result, all_users, collected>>

dirVars == <<directory, listCalls>>

vars == <<rc_script, rc_pc, rc_attempt, rc_invocations, rc_out,
          pc, result, all_users, future, futResult, collected,
          buffer, target, staging, now, calls, sinceFlush,
          directory, listCalls,
          lp_mode, lp_pages, lp_fail, lp_auth, lp_content, lp_pc, page_token,
          lp_items, lp_acc, lp_submitted, lp_seen, lp_listCalls, lp_extracted>>

---------------------------------------------------------------------------
(***************************************************************************)
(* The remote world the run reads: the directory and each user's Drive     *)
(* listing of script files.  A script id is unique within one user's       *)
(* listing; "s1" and "s2" are listed for both a and b (a file with two     *)
(* owners, or one whose ownership moves while the run is going on).  The    *)
(* listing of c holds an entry without an id (f.get('id') is None) and one  *)
(* whose id is the empty string.                                           *)
(***************************************************************************)
Directory ==
    << [primaryEmail |-> "a", suspended |-> FALSE],
       [primaryEmail |-> "b", suspended |-> FALSE],
       [primaryEmail |-> "x", suspended |-> TRUE],
       [primaryEmail |-> "c", suspended |-> FALSE] >>

Users == {Directory[i].primaryEmail : i \in 1..Len(Directory)}

OwnedScripts(user_email) ==
    CASE user_email = "a" -> <<"s1", "s2">>
      [] user_email = "b" -> <<"s1", "s2">>
      [] user_email = "c" -> <<None, "">>
      [] OTHER            -> <<"s1">>

\* The display name Drive lists for a script file.
NameOf(script_id) == <<"name", script_id>>

\* maxResults of users().list (500, src/main.py:190) and pageSize of
\* files().list (100, src/main.py:219), scaled down like the other bounds.
DIR_PAGE_SIZE == 2
DRIVE_PAGE_SIZE == 1

\* The pages a remote listing serves for `items` with `size` items a page.
RECURSIVE Pages(_, _)
Pages(items, size) ==
    IF Len(items) <= size THEN <<items>>
    ELSE <<SubSeq(items, 1, size)>> \o Pages(SubSeq(items, size + 1, Len(items)), size)

\* The directories a run can meet: the one above, or the same entries with
\* every account suspended.
Directories ==
    {Directory, [i \in 1..Len(Directory) |-> [Directory[i] EXCEPT !.suspended = TRUE]]}

RECURSIVE Concat(_)
Concat(seqs) == IF seqs = <<>> THEN <<>> ELSE Head(seqs) \o Concat(Tail(seqs))

Range(seq) == {seq[i] : i \in 1..Len(seq)}

NoResult == [msg |-> None, code |-> 0]

\* The state before main_handler is invoked: nothing scheduled, an empty
\* target table, no staging table.
PipelineIdle ==
    /\ pc = "start"
    /\ result = NoResult
    /\ all_users = <<>>
    /\ future = [u \in Users |-> "none"]
    /\ futResult = [u \in Users |-> <<>>]
    /\ collected = {}
    /\ buffer = <<>>
    /\ target = <<>>
    /\ staging = {}
    /\ now = 0
    /\ calls = <<>>
    /\ sinceFlush = <<>>
    /\ directory \in Directories
    /\ listCalls = 0

\* No cursor-following loop is being followed step by step.
LpIdle ==
    /\ lp_mode = "dir"
    /\ lp_pages = <<>>
    /\ lp_fail = 0
    /\ lp_auth = "ok"
    /\ lp_content = <<>>
    /\ lp_pc = "idle"
    /\ page_token = 0
    /\ lp_items = <<>>
    /\ lp_acc = <<>>
    /\ lp_submitted = <<>>
    /\ lp_seen = <<>>
    /\ lp_listCalls = 0
    /\ lp_extracted = <<>>

---------------------------------------------------------------------------
(***************************************************************************)
(* get_manifest_content, src/main.py:164-181.                              *)
(***************************************************************************)

\* HttpError raised by .execute(), by status of e.resp.
HttpErrors == {"HttpError403", "HttpError404", "HttpError429", "HttpError500"}

\* What one invocation of projects().getContent(...).execute() can do:
\* answer with a file set holding the appsscript/JSON file, answer with a file
\* set that has no such file, raise HttpError, raise
\* google.api_core.exceptions.TooManyRequests, raise anything else.
RemoteOutcomes ==
    {"manifest", "no_manifest", "TooManyRequests", "OtherError"} \cup HttpErrors

\* The body of the function, lines 168-181, for one outcome of the remote call.
\* HttpError is re-raised (line 178, after the warning for 403/404); every
\* other exception is caught by `except Exception` and turned into None.
BodyResult(o) ==
    CASE o = "manifest"    -> [kind |-> "return", val |-> "source"]
      [] o = "no_manifest" -> [kind |-> "return", val |-> None]
      [] o \in HttpErrors  -> [kind |-> "raise", val |-> o]
      [] OTHER             -> [kind |-> "return", val |-> None]

\* retry_if_exception_type((TooManyRequests, HttpError)), line 164.
RetryPredicate(exc) == exc \in HttpErrors \cup {"TooManyRequests"}

\* What reaches the caller: a returned value or a raised exception, as it is,
\* or inside tenacity's RetryError, which is what the decorator raises when
\* stop_after_attempt is reached (it does not set reraise=True).
Plain(v) == [val |-> v, wrapper |-> None]
RetryError(exc) == [val |-> exc, wrapper |-> "RetryError"]

\* One attempt of the decorated call: run the body, then tenacity's decision.
RetryStep(attempt, o) ==
    LET r == BodyResult(o) IN
    IF r.kind = "return" THEN [pc |-> "returned", out |-> Plain(r.val)]
    ELSE IF ~RetryPredicate(r.val) THEN [pc |-> "raised", out |-> Plain(r.val)]
    ELSE IF attempt >= STOP_AFTER_ATTEMPT
         THEN [pc |-> "raised", out |-> RetryError(r.val)]
    ELSE [pc |-> "calling", out |-> Plain(None)]

\* The decorated call for a remote operation that behaves as script[i] at its
\* i-th invocation: what finally reaches the caller.
RECURSIVE RetryCall(_, _)
RetryCall(script, attempt) ==
    LET s == RetryStep(attempt, script[attempt]) IN
    IF s.pc = "calling" THEN RetryCall(script, attempt + 1) ELSE s

RetryInit ==
    /\ PipelineIdle
    /\ LpIdle
    /\ rc_script \in [1..STOP_AFTER_ATTEMPT -> RemoteOutcomes]
    /\ rc_pc = "calling"
    /\ rc_attempt = 1
    /\ rc_invocations = 0
    /\ rc_out = Plain(None)

Attempt ==
    /\ rc_pc = "calling"
    /\ LET s == RetryStep(rc_attempt, rc_script[rc_attempt]) IN
       /\ rc_pc' = s.pc
       /\ rc_out' = s.out
    /\ rc_invocations' = rc_invocations + 1
    /\ rc_attempt' = rc_attempt + 1
    /\ UNCHANGED rc_script
    /\ UNCHANGED <<lpVars, mainVars, poolVars, storeVars, now, dirVars>>

RetryNext == Attempt

SpecRetry == RetryInit /\ [][RetryNext]_vars

\* The call has ended, by a return or by an exception.
RetryDone == rc_pc \in {"returned", "raised"}

\* The two error classes the decorator names as retryable: rate-limited
\* (TooManyRequests) and HTTP errors of a transient status.
RateLimited == {"TooManyRequests"}
TransientHttp == {"HttpError429", "HttpError500"}
Succeeding == {"manifest", "no_manifest"}

\* C7: when getContent fails twice with one error of a retryable class
\* (rate-limited or transient HTTP) and then succeeds, it is invoked exactly 3
\* times and the call returns the result of the third invocation.
C7_TwoFailuresThenSuccess ==
    \A e \in RateLimited \cup TransientHttp :
        (/\ RetryDone
         /\ rc_script[1] = e /\ rc_script[2] = e
         /\ rc_script[3] \in Succeeding)
        => (/\ rc_invocations = 3
            /\ rc_pc = "returned"
            /\ rc_out = Plain(BodyResult(rc_script[3]).val))

\* C8: when getContent always fails with one retryable error, it is invoked
\* exactly 3 times and that same error reaches the caller, not wrapped and not
\* replaced.
C8_ExhaustionPropagatesUnmodified ==
    \A e \in RateLimited \cup TransientHttp :
        (RetryDone /\ \A i \in 1..STOP_AFTER_ATTEMPT : rc_script[i] = e)
        => (/\ rc_invocations = 3
            /\ rc_pc = "raised"
            /\ rc_out = Plain(e))

\* C9: when getContent fails with an error that is neither rate-limited nor
\* transient HTTP (403, 404 in particular), it is invoked exactly once and the
\* error is raised to the caller on that first failure.
C9_NonRetryablePropagatesAtOnce ==
    \A e \in {"HttpError403", "HttpError404", "OtherError"} :
        (RetryDone /\ rc_script[1] = e)
        => (/\ rc_invocations = 1
            /\ rc_pc = "raised"
            /\ rc_out = Plain(e))

---------------------------------------------------------------------------
(***************************************************************************)
(* get_all_domain_users, src/main.py:183-200.                              *)
(***************************************************************************)

\* The filter as it would be if it kept every entry.
NotSuspended_all(u) == TRUE

\* `not u.get('suspended')`, line 192: an entry without the flag is kept.
NotSuspended(u) == ~("suspended" \in DOMAIN u /\ u.suspended = TRUE)

\* failPage is the page whose users().list call raises (0: none does).  Each
\* page is filtered on `suspended`; an exception on any page is caught at
\* line 198 and the function returns [].
get_all_domain_users(pages, failPage) ==
    IF failPage \in 1..Len(pages) THEN <<>>
    ELSE Concat([i \in 1..Len(pages) |-> SelectSeq(pages[i], NotSuspended)])

---------------------------------------------------------------------------
(***************************************************************************)
(* scan_user_for_manifests, src/main.py:202-247.                           *)
(***************************************************************************)

AuthOutcomes == {"ok", "drive_fail", "script_fail"}

\* The guard as it would be if it tested the Drive handle only.
AuthFailed_driveOnly(auth) == auth = "drive_fail"

\* `if not drive_service or not script_service`, line 206.
AuthFailed(auth) == auth # "ok"

\* What getContent does for the scripts of one scan (the same at every
\* attempt of one script).
ScanOutcomes == {"manifest", "no_manifest", "HttpError403", "TooManyRequests"}

\* get_manifest_content(script_id, script_service) as the scan sees it: the
\* manifest source, or None when the call returned None or raised (the scan's
\* `except Exception: continue` skips the script either way).
ManifestJson(o) ==
    LET r == RetryCall([i \in 1..STOP_AFTER_ATTEMPT |-> o], 1) IN
    IF r.pc = "returned" THEN r.out.val ELSE None

\* What the getContent request does for script_id: without an id the client
\* library raises before any request is sent (scriptId is a required
\* parameter), whatever the service would answer.
ContentOutcome(script_id, content) ==
    IF script_id = None THEN "OtherError" ELSE content[script_id]

ManifestRow(script_id, user_email, manifest_json, t) ==
    [script_id        |-> script_id,
     script_name      |-> NameOf(script_id),
     owner_email      |-> user_email,
     manifest_content |-> manifest_json,
     extraction_date  |-> t]

\* The rows of one page of files (lines 223-237): one row per file whose
\* manifest was obtained.
PageRows(files, user_email, content, t) ==
    LET HasManifest(f) == ManifestJson(ContentOutcome(f, content)) # None
        kept == SelectSeq(files, HasManifest)
    IN [i \in 1..Len(kept) |->
            ManifestRow(kept[i], user_email,
                        ManifestJson(ContentOutcome(kept[i], content)), t)]

\* The whole task.  auth: the outcome of the two get_impersonated_service
\* calls; failPage: the page whose files().list call raises (0: none);
\* content: what getContent does for each script.  A listing failure is caught
\* at line 244 and the rows gathered so far are returned (line 247).
scan_user_for_manifests(user_email, auth, failPage, content, t) ==
    IF AuthFailed(auth) THEN <<>>
    ELSE LET pages == Pages(OwnedScripts(user_email), DRIVE_PAGE_SIZE)
             last  == IF failPage \in 1..Len(pages) THEN failPage - 1 ELSE Len(pages)
         IN Concat([i \in 1..last |-> PageRows(pages[i], user_email, content, t)])

\* Every result the task of user_email can return at time t.
ScanResults(user_email, t) ==
    LET files == OwnedScripts(user_email) IN
    { scan_user_for_manifests(user_email, auth, failPage, content, t) :
        auth \in AuthOutcomes,
        failPage \in 0..Len(Pages(files, DRIVE_PAGE_SIZE)),
        content \in [Range(files) -> ScanOutcomes] }

---------------------------------------------------------------------------
(***************************************************************************)
(* execute_merge_query, src/main.py:103-141.                               *)
(***************************************************************************)

\* Where the store makes the try block fail: nowhere, at get_table (schema),
\* at the load job, at the MERGE query.
StoreOutcomes == {"ok", "schema_fail", "load_fail", "merge_fail"}
\* Whether delete_table in the finally clause succeeds.
DeleteOutcomes == {"ok", "fail"}

StoreEnvs == [o : StoreOutcomes, d : DeleteOutcomes]

\* temp_table_id, line 108: table name, timestamp in seconds and pid.
TempTableId(t) == <<"staging", t>>

MatchingRows(t, rows) == {i \in 1..Len(rows) : rows[i].script_id = t.script_id}

\* The MERGE statement, lines 120-135.  A target row matched by more than
\* one staging row makes the statement fail; a matched row takes the four
\* mutable fields of its staging row; every staging row without a matching
\* target row is inserted.
MergeConflict(tgt, rows) ==
    \E j \in 1..Len(tgt) : Cardinality(MatchingRows(tgt[j], rows)) > 1

MergeRows(tgt, rows) ==
    LET Matched(r) == \E j \in 1..Len(tgt) : tgt[j].script_id = r.script_id
        Unmatched(r) == ~Matched(r)
        updated == [j \in 1..Len(tgt) |->
                      IF MatchingRows(tgt[j], rows) = {} THEN tgt[j]
                      ELSE LET src == rows[CHOOSE i \in MatchingRows(tgt[j], rows) : TRUE]
                           IN [script_id        |-> tgt[j].script_id,
                               script_name      |-> src.script_name,
                               owner_email      |-> src.owner_email,
                               manifest_content |-> src.manifest_content,
                               extraction_date  |-> src.extraction_date]]
    IN updated \o SelectSeq(rows, Unmatched)

\* RunMerge as it would be if the rows were written one statement at a time:
\* a failure leaves the rows written before it in the table.
RunMerge_rowwise(tgt, rows, fails) ==
    IF fails \/ MergeConflict(tgt, rows)
    THEN [ok |-> FALSE, target |-> MergeRows(tgt, <<Head(rows)>>)]
    ELSE [ok |-> TRUE, target |-> MergeRows(tgt, rows)]

\* BQ_CLIENT.query(query).result(), line 135: one atomic DML statement.
RunMerge(tgt, rows, fails) ==
    IF fails \/ MergeConflict(tgt, rows)
    THEN [ok |-> FALSE, target |-> tgt]
    ELSE [ok |-> TRUE, target |-> MergeRows(tgt, rows)]

\* The try block, lines 112-139: schema, load into the staging table
\* (WRITE_TRUNCATE), MERGE.  Every exception is caught and logged.
TryLoadAndMerge(tgt, stg, rows, name, o) ==
    IF o \in {"schema_fail", "load_fail"}
    THEN [target |-> tgt, staging |-> stg, outcome |-> "load_failed"]
    ELSE LET m == RunMerge(tgt, rows, o = "merge_fail")
         IN [target  |-> m.target,
             staging |-> stg \cup {name},
             outcome |-> IF m.ok THEN "merged" ELSE "merge_failed"]

\* execute_merge_query as it would be with delete_table as the last statement
\* of the try block instead of a finally clause: a failure skips it.
execute_merge_query_noFinally(tgt, stg, rows, name, e) ==
    IF rows = <<>>
    THEN [target |-> tgt, staging |-> stg, outcome |-> "skipped", raised |-> FALSE]
    ELSE LET r == TryLoadAndMerge(tgt, stg, rows, name, e.o)
             deleted == r.outcome = "merged" /\ e.d = "ok"
         IN [target  |-> r.target,
             staging |-> IF deleted THEN r.staging \ {name} ELSE r.staging,
             outcome |-> r.outcome,
             raised  |-> FALSE]

\* The whole call: the try block, then the finally clause (line 141), whose
\* delete_table runs on every path and whose own failure leaves the function
\* as an exception.
execute_merge_query(tgt, stg, rows, name, e) ==
    IF rows = <<>>
    THEN [target |-> tgt, staging |-> stg, outcome |-> "skipped", raised |-> FALSE]
    ELSE LET r == TryLoadAndMerge(tgt, stg, rows, name, e.o)
         IN [target  |-> r.target,
             staging |-> IF e.d = "ok" THEN r.staging \ {name} ELSE r.staging,
             outcome |-> r.outcome,
             raised  |-> e.d # "ok"]

---------------------------------------------------------------------------
(***************************************************************************)
(* BigQueryBatcher, src/main.py:143-158.                                   *)
(***************************************************************************)

\* flush: nothing on an empty buffer; otherwise the buffer goes to the sink
\* and is cleared by line 158, which an exception from the sink skips.
Flush(buf, tgt, stg, name, e) ==
    IF buf = <<>>
    THEN [buffer |-> buf, target |-> tgt, staging |-> stg,
          called |-> FALSE, outcome |-> "skipped", raised |-> FALSE]
    ELSE LET r == execute_merge_query(tgt, stg, buf, name, e)
         IN [buffer  |-> IF r.raised THEN buf ELSE <<>>,
             target  |-> r.target,
             staging |-> r.staging,
             called  |-> TRUE,
             outcome |-> r.outcome,
             raised  |-> r.raised]

\* add as it would be if it flushed after every append.
Add_eager(buf, rows, tgt, stg, name, e) ==
    IF rows = <<>>
    THEN [buffer |-> buf, target |-> tgt, staging |-> stg,
          called |-> FALSE, outcome |-> "skipped", raised |-> FALSE]
    ELSE Flush(buf \o rows, tgt, stg, name, e)

\* add: nothing for an empty result; extend, then flush at the threshold.
Add(buf, rows, tgt, stg, name, e) ==
    IF rows = <<>>
    THEN [buffer |-> buf, target |-> tgt, staging |-> stg,
          called |-> FALSE, outcome |-> "skipped", raised |-> FALSE]
    ELSE IF Len(buf \o rows) >= BQ_BATCH_SIZE
         THEN Flush(buf \o rows, tgt, stg, name, e)
         ELSE [buffer |-> buf \o rows, target |-> tgt, staging |-> stg,
               called |-> FALSE, outcome |-> "skipped", raised |-> FALSE]

\* The record kept of one execute_merge_query call.
CallRecord(batch, before, r, name, via, coll, e) ==
    [batch     |-> batch,
     before    |-> before,
     after     |-> r.target,
     outcome   |-> r.outcome,
     raised    |-> r.raised,
     store     |-> e.o,
     bufferAfter |-> r.buffer,
     name      |-> name,
     staging   |-> r.staging,
     via       |-> via,
     collected |-> coll]

\* The store and the history after a batcher operation with result r that was
\* given `batch` (the buffer as the sink would see it).
StoreAfter(r, batch, appended, via, coll, e) ==
    /\ buffer' = r.buffer
    /\ target' = r.target
    /\ staging' = r.staging
    /\ calls' = IF r.called
                THEN Append(calls, CallRecord(batch, target, r, TempTableId(now), via, coll, e))
                ELSE calls
    /\ sinceFlush' = IF r.called THEN <<>> ELSE sinceFlush \o appended

---------------------------------------------------------------------------
(***************************************************************************)
(* main_handler, src/main.py:253-283, and the worker pool.                 *)
(***************************************************************************)

DirectoryPages == Pages(directory, DIR_PAGE_SIZE)

Emails(users) == [i \in 1..Len(users) |-> users[i].primaryEmail]

\* main_handler as it would be if it listed the directory before it looked
\* at the admin handle.
AdminAuthFailure_listsFirst ==
    /\ pc = "start"
    /\ pc' = "done"
    /\ result' = [msg |-> "Admin Auth Failure", code |-> 500]
    /\ listCalls' = 1
    /\ UNCHANGED <<lpVars, rcVars, all_users, collected, poolVars, storeVars, now, directory>>

\* Line 257-258: the admin handle is not obtained.
AdminAuthFailure ==
    /\ pc = "start"
    /\ pc' = "done"
    /\ result' = [msg |-> "Admin Auth Failure", code |-> 500]
    /\ UNCHANGED <<lpVars, rcVars, all_users, collected, poolVars, storeVars, now, dirVars>>

\* The users().list calls of one get_all_domain_users call: every page, or the
\* pages up to the one that raises.
ListCallsMade(pages, failPage) ==
    IF failPage \in 1..Len(pages) THEN failPage ELSE Len(pages)

\* Lines 260-265: the listing yields no active user (every account is
\* suspended, or a users().list call failed).
NoUsersFound ==
    /\ pc = "start"
    /\ \E failPage \in 0..Len(DirectoryPages) :
          /\ get_all_domain_users(DirectoryPages, failPage) = <<>>
          /\ all_users' = <<>>
          /\ listCalls' = ListCallsMade(DirectoryPages, failPage)
    /\ pc' = "done"
    /\ result' = [msg |-> "No Users Found", code |-> 200]
    /\ UNCHANGED <<lpVars, rcVars, collected, poolVars, storeVars, now, directory>>

\* Lines 260-268: a fresh batcher, the user list, one future per listed user.
Submit ==
    /\ pc = "start"
    /\ LET users == get_all_domain_users(DirectoryPages, 0) IN
       /\ users # <<>>
       /\ all_users' = Emails(users)
       /\ future' = [u \in Users |->
                        IF u \in Range(Emails(users)) THEN "pending" ELSE "none"]
    /\ listCalls' = ListCallsMade(DirectoryPages, 0)
    /\ pc' = "collect"
    /\ UNCHANGED <<lpVars, rcVars, result, collected, futResult, storeVars, now, directory>>

Running == {u \in Users : future[u] = "running"}

\* The pool's queue is first in, first out: a free worker takes the earliest
\* submitted task that is still pending.
NextPending(u) ==
    \E i \in 1..Len(all_users) :
        /\ all_users[i] = u
        /\ future[u] = "pending"
        /\ \A j \in 1..(i - 1) : future[all_users[j]] # "pending"

\* The pool as it would be if it started a thread for every submitted task.
WorkerFree_unbounded == TRUE

\* ThreadPoolExecutor(max_workers=MAX_WORKERS): a task starts only while
\* fewer than MAX_WORKERS tasks are executing.
WorkerFree == Cardinality(Running) < MAX_WORKERS

StartTask(u) ==
    /\ NextPending(u)
    /\ WorkerFree
    /\ future' = [future EXCEPT ![u] = "running"]
    /\ UNCHANGED <<lpVars, rcVars, mainVars, futResult, storeVars, now, dirVars>>

\* A scan task as it would be if the worker appended its rows to the buffer
\* itself instead of returning them.
FinishTask_adds(u) ==
    /\ future[u] = "running"
    /\ \E rows \in ScanResults(u, now) :
          /\ futResult' = [futResult EXCEPT ![u] = <<>>]
          /\ buffer' = buffer \o rows
          /\ sinceFlush' = sinceFlush \o rows
    /\ future' = [future EXCEPT ![u] = "done"]
    /\ UNCHANGED <<lpVars, rcVars, mainVars, target, staging, calls, now, dirVars>>

\* Lines 202-247 run in a worker: the task ends and its rows become the
\* future's result.
FinishTask(u) ==
    /\ future[u] = "running"
    /\ \E rows \in ScanResults(u, now) :
          futResult' = [futResult EXCEPT ![u] = rows]
    /\ future' = [future EXCEPT ![u] = "done"]
    /\ UNCHANGED <<lpVars, rcVars, mainVars, storeVars, now, dirVars>>

\* Lines 269-275: as_completed yields a finished future, its rows go to add;
\* an exception leaving add is caught and logged at line 274.
Collect(u) ==
    /\ pc = "collect"
    /\ future[u] = "done"
    /\ u \notin collected
    /\ collected' = collected \cup {u}
    /\ LET rows == futResult[u]
           willCall == rows # <<>> /\ Len(buffer \o rows) >= BQ_BATCH_SIZE
       IN \E e \in IF willCall THEN StoreEnvs ELSE {[o |-> "ok", d |-> "ok"]} :
             StoreAfter(Add(buffer, rows, target, staging, TempTableId(now), e),
                        buffer \o rows, rows, "add", collected \cup {u}, e)
    /\ UNCHANGED <<lpVars, rcVars, pc, result, all_users, poolVars, now, dirVars>>

\* Lines 277-283: the trailing flush, once every future has been yielded;
\* an exception leaving it reaches the outer handler.
FinalFlush ==
    /\ pc = "collect"
    /\ collected = Range(all_users)
    /\ \E e \in IF buffer # <<>> THEN StoreEnvs ELSE {[o |-> "ok", d |-> "ok"]} :
          LET r == Flush(buffer, target, staging, TempTableId(now), e) IN
          /\ StoreAfter(r, buffer, <<>>, "flush", collected, e)
          /\ result' = IF r.raised THEN [msg |-> "Failed", code |-> 500]
                       ELSE [msg |-> "Success", code |-> 200]
    /\ pc' = "done"
    /\ UNCHANGED <<lpVars, rcVars, all_users, collected, poolVars, now, dirVars>>

\* Time passes.
Tick ==
    /\ now < MaxTime
    /\ pc # "done"
    /\ now' = now + 1
    /\ UNCHANGED <<lpVars, rcVars, mainVars, poolVars, storeVars, dirVars>>

Init ==
    /\ PipelineIdle
    /\ LpIdle
    /\ rc_script = [i \in 1..STOP_AFTER_ATTEMPT |-> "manifest"]
    /\ rc_pc = "returned"
    /\ rc_attempt = 1
    /\ rc_invocations = 0
    /\ rc_out = Plain(None)

Next ==
    \/ AdminAuthFailure
    \/ NoUsersFound
    \/ Submit
    \/ \E u \in Users : StartTask(u)
    \/ \E u \in Users : FinishTask(u)
    \/ \E u \in Users : Collect(u)
    \/ FinalFlush
    \/ Tick

Spec == Init /\ [][Next]_vars

---------------------------------------------------------------------------
(***************************************************************************)
(* The two cursor-following loops, step by step: get_all_domain_users      *)
(* (src/main.py:183-200) followed by the submit loop (line 268), and       *)
(* scan_user_for_manifests (src/main.py:202-247).  One run follows one of  *)
(* them over a listing the remote service splits into pages as it likes.   *)
(***************************************************************************)

MaxItems == 2
MaxPages == 2

\* Sequences without repetition of at most n elements of S.
RECURSIVE InjSeqs(_, _)
InjSeqs(S, n) ==
    IF n = 0 THEN {<<>>}
    ELSE LET shorter == InjSeqs(S, n - 1) IN
         shorter \cup UNION { {Append(q, x) : x \in S \ Range(q)} : q \in shorter }

\* Every way of serving `items`, in order, as exactly p pages; a page may be
\* empty or hold all of them.
RECURSIVE Splits(_, _)
Splits(items, p) ==
    IF p = 1 THEN {<<items>>}
    ELSE UNION { { <<SubSeq(items, 1, k)>> \o rest :
                     rest \in Splits(SubSeq(items, k + 1, Len(items)), p - 1) } :
                 k \in 0..Len(items) }

Servings(items) == UNION { Splits(items, p) : p \in 1..MaxPages }

\* The addresses of the listed accounts.
ListedEmails == {"a", "b", "c"}

\* A directory entry: suspended, not suspended, or without the flag.
UserEntries ==
    [primaryEmail : ListedEmails, suspended : BOOLEAN] \cup [primaryEmail : ListedEmails]

\* The ids files().list can serve: two scripts, the empty string, no id.
ListedIds == {"s1", "s2", "", None}

\* The user whose Drive is scanned.
ScannedUser == "a"

\* What getContent does for a listed id in these runs.
LpOutcomes == {"manifest", "no_manifest", "HttpError403"}

LpInit ==
    /\ PipelineIdle
    /\ rc_script = [i \in 1..STOP_AFTER_ATTEMPT |-> "manifest"]
    /\ rc_pc = "returned"
    /\ rc_attempt = 1
    /\ rc_invocations = 0
    /\ rc_out = Plain(None)
    /\ directory = Directory
    /\ lp_mode \in {"dir", "scan"}
    /\ \E items \in IF lp_mode = "dir"
                     THEN {q \in InjSeqs(UserEntries, MaxItems) :
                             \A i, j \in 1..Len(q) :
                                 i # j => q[i].primaryEmail # q[j].primaryEmail}
                     ELSE InjSeqs(ListedIds, MaxItems) :
          /\ lp_pages \in Servings(items)
          /\ lp_content \in IF lp_mode = "dir" THEN {<<>>}
                             ELSE [Range(items) \ {None} -> LpOutcomes]
    /\ lp_fail \in 0..Len(lp_pages)
    /\ lp_auth \in IF lp_mode = "dir" THEN {"ok"} ELSE AuthOutcomes
    /\ lp_pc = IF lp_mode = "dir" THEN "list" ELSE "auth"
    /\ page_token = 0
    /\ lp_items = <<>>
    /\ lp_acc = <<>>
    /\ lp_submitted = <<>>
    /\ lp_seen = <<>>
    /\ lp_listCalls = 0
    /\ lp_extracted = <<>>

\* Lines 203-208: the two handles; without either the task returns [].
LpAuth ==
    /\ lp_pc = "auth"
    /\ lp_pc' = IF AuthFailed(lp_auth) THEN "returned" ELSE "list"
    /\ UNCHANGED <<lp_mode, lp_pages, lp_fail, lp_auth, lp_content, page_token,
                   lp_items, lp_acc, lp_submitted, lp_seen, lp_listCalls, lp_extracted>>
    /\ UNCHANGED <<rcVars, mainVars, poolVars, storeVars, now, dirVars>>

\* The page a token asks for: the first one for None.
PageAsked(token) == IF token = 0 THEN 1 ELSE token

\* nextPageToken of page k: absent on the last page.
NextPageToken(pages, k) == IF k < Len(pages) THEN k + 1 ELSE 0

\* What the except clause returns when a list call raises: [] for the
\* directory (line 200), manifest_rows as it stands for a scan (line 247).
OnListingFailure(mode, acc) == IF mode = "dir" THEN <<>> ELSE acc

\* Lines 189-191 and 216-220: one list(...).execute() call.
LpList ==
    /\ lp_pc = "list"
    /\ lp_listCalls' = lp_listCalls + 1
    /\ LET k == PageAsked(page_token) IN
       IF k = lp_fail
       THEN /\ lp_pc' = "returned"
            /\ lp_acc' = OnListingFailure(lp_mode, lp_acc)
            /\ UNCHANGED <<lp_items, page_token>>
       ELSE /\ lp_pc' = "page"
            /\ lp_items' = lp_pages[k]
            /\ page_token' = NextPageToken(lp_pages, k)
            /\ UNCHANGED lp_acc
    /\ UNCHANGED <<lp_mode, lp_pages, lp_fail, lp_auth, lp_content,
                   lp_submitted, lp_seen, lp_extracted>>
    /\ UNCHANGED <<rcVars, mainVars, poolVars, storeVars, now, dirVars>>

\* The loop over a page as it would be if a script without manifest ended it.
ItemsAfter_abort(items, obtained) == IF obtained THEN Tail(items) ELSE <<>>

\* `for f in files` with `if manifest_json` and `except Exception: continue`
\* (lines 223-237): the next item is processed whatever the last one gave.
ItemsAfter(items, obtained) == Tail(items)

\* Line 192 for one entry of the page, lines 224-237 for one file.
LpItem ==
    /\ lp_pc = "page"
    /\ lp_items # <<>>
    /\ LET item == Head(lp_items) IN
       /\ lp_seen' = Append(lp_seen, item)
       /\ IF lp_mode = "dir"
          THEN /\ lp_acc' = IF NotSuspended(item) THEN Append(lp_acc, item) ELSE lp_acc
               /\ lp_items' = Tail(lp_items)
               /\ UNCHANGED lp_extracted
          ELSE LET manifest_json == ManifestJson(ContentOutcome(item, lp_content)) IN
               /\ lp_extracted' = Append(lp_extracted, item)
               /\ lp_acc' = IF manifest_json # None
                            THEN Append(lp_acc, ManifestRow(item, ScannedUser, manifest_json, now))
                            ELSE lp_acc
               /\ lp_items' = ItemsAfter(lp_items, manifest_json # None)
    /\ UNCHANGED <<lp_mode, lp_pages, lp_fail, lp_auth, lp_content, lp_pc,
                   page_token, lp_submitted, lp_listCalls>>
    /\ UNCHANGED <<rcVars, mainVars, poolVars, storeVars, now, dirVars>>

\* The loop as it would be if it stopped after its first page.
LoopContinues_never(token) == FALSE

\* `if not page_token: break`, lines 195 and 239.
LoopContinues(token) == token # 0

\* Lines 194-197 and 238-247: the page is done; ask for the next one or return.
LpNextPage ==
    /\ lp_pc = "page"
    /\ lp_items = <<>>
    /\ lp_pc' = IF LoopContinues(page_token) THEN "list" ELSE "returned"
    /\ UNCHANGED <<lp_mode, lp_pages, lp_fail, lp_auth, lp_content, page_token,
                   lp_items, lp_acc, lp_submitted, lp_seen, lp_listCalls, lp_extracted>>
    /\ UNCHANGED <<rcVars, mainVars, poolVars, storeVars, now, dirVars>>

\* Lines 261-268: main_handler submits one task per returned user (none, and
\* "No Users Found", for an empty list).
LpSubmit ==
    /\ lp_mode = "dir"
    /\ lp_pc = "returned"
    /\ lp_pc' = "submitted"
    /\ lp_submitted' = Emails(lp_acc)
    /\ UNCHANGED <<lp_mode, lp_pages, lp_fail, lp_auth, lp_content, page_token,
                   lp_items, lp_acc, lp_seen, lp_listCalls, lp_extracted>>
    /\ UNCHANGED <<rcVars, mainVars, poolVars, storeVars, now, dirVars>>

LpNext ==
    \/ LpAuth
    \/ LpList
    \/ LpItem
    \/ LpNextPage
    \/ LpSubmit

SpecPaging == LpInit /\ [][LpNext]_vars

LpReturned == lp_pc \in {"returned", "submitted"}

---------------------------------------------------------------------------
(***************************************************************************)
(* Properties of the pipeline.                                             *)
(***************************************************************************)

Ids(rows) == [k \in 1..Len(rows) |-> rows[k].script_id]

\* How many times row r was handed to the sink in this run.
HandedCount(r) ==
    Cardinality({<<i, k>> \in (1..Len(calls)) \X (1..BQ_BATCH_SIZE + 4) :
                    k <= Len(calls[i].batch) /\ calls[i].batch[k] = r})

\* C1: when main_handler returns ("Success", 200), every row returned by a
\* scan task has been handed to execute_merge_query in exactly one batch, no
\* row is left in the buffer, and the trailing flush ran after every task's
\* result had been collected.
C1_SuccessMeansHandedExactlyOnce ==
    result.msg = "Success" =>
        /\ \A u \in Range(all_users) : \A k \in 1..Len(futResult[u]) :
              HandedCount(futResult[u][k]) = 1
        /\ buffer = <<>>
        /\ \A i \in 1..Len(calls) :
              calls[i].via = "flush" => calls[i].collected = Range(all_users)

RowsOf(tbl, id) == SelectSeq(tbl, LAMBDA r : r.script_id = id)

\* C3: two execute_merge_query calls in succession with the same batch (the
\* same script_ids in the same order), the store failing in neither, leave
\* the target with exactly one row per script_id of the batch, equal to the
\* row of the second batch, and leave the rows of other script_ids as they were.
C3_MergeTwiceLastWriteWins ==
    \A i \in 1..(Len(calls) - 1) :
        LET c1 == calls[i]
            c2 == calls[i + 1]
            keys == Range(Ids(c2.batch))
        IN (/\ Ids(c1.batch) = Ids(c2.batch)
            /\ c1.store = "ok" /\ c2.store = "ok")
           => /\ \A k \in 1..Len(c2.batch) :
                    RowsOf(c2.after, c2.batch[k].script_id) = <<c2.batch[k]>>
              /\ SelectSeq(c2.after, LAMBDA r : r.script_id \notin keys)
                    = SelectSeq(c1.before, LAMBDA r : r.script_id \notin keys)

\* C4: the target table never holds two rows with the same script_id.
C4_TargetKeyedByScriptId ==
    \A i, j \in 1..Len(target) :
        target[i].script_id = target[j].script_id => i = j

\* C5: a call whose load or merge failed leaves the target table exactly as
\* it was before the call; every call that merged, whether before or after a
\* failed one, has every row of its batch in the table; nothing else writes
\* the table between calls.
C5_FailedBatchWritesNothing ==
    /\ \A i \in 1..Len(calls) :
          /\ calls[i].outcome \in {"load_failed", "merge_failed"}
                => calls[i].after = calls[i].before
          /\ calls[i].outcome = "merged"
                => Range(calls[i].batch) \subseteq Range(calls[i].after)
          /\ i > 1 => calls[i].before = calls[i - 1].after
    /\ calls # <<>> => target = calls[Len(calls)].after

\* A run with a merged batch, then a failed one, then a merged one.
C5_Witness ==
    \E i, j, k \in 1..Len(calls) :
        /\ i < j /\ j < k
        /\ calls[i].outcome = "merged"
        /\ calls[j].outcome \in {"load_failed", "merge_failed"}
        /\ calls[j].before # <<>>
        /\ calls[k].outcome = "merged"

\* C6: a flush of a non-empty buffer leaves the buffer empty whatever the
\* sink did, does not raise, and no row of its batch is handed to the sink by
\* another flush.
C6_FlushClearsAndNeverRaises ==
    \A i \in 1..Len(calls) :
        /\ calls[i].bufferAfter = <<>>
        /\ ~calls[i].raised
        /\ \A j \in 1..Len(calls) :
              j # i => Range(calls[i].batch) \cap Range(calls[j].batch) = {}

\* C10: an add that leaves fewer than BQ_BATCH_SIZE rows in the buffer makes
\* no sink call; an add that brings the buffer to BQ_BATCH_SIZE rows or more
\* makes exactly one sink call, with all the rows appended since the last
\* sink call in append order, and leaves the buffer empty; a flush of an
\* empty buffer makes no sink call.
C10_AddStep ==
    \A u \in Users :
        (pc = "collect" /\ u \notin collected /\ collected' = collected \cup {u})
        => LET rows == futResult[u] IN
           /\ Len(buffer \o rows) < BQ_BATCH_SIZE => calls' = calls
           /\ (rows # <<>> /\ Len(buffer \o rows) >= BQ_BATCH_SIZE)
                => /\ Len(calls') = Len(calls) + 1
                   /\ calls'[Len(calls')].batch = sinceFlush \o rows
                   /\ buffer' = <<>>

C10_FlushStep ==
    (pc = "collect" /\ pc' = "done" /\ buffer = <<>>) => calls' = calls

C10_ThresholdFlush == [][C10_AddStep /\ C10_FlushStep]_vars

\* C11: at every instant at most MAX_WORKERS scan tasks are executing, also
\* when there are more active users than workers.
C11_PoolBound == Cardinality(Running) <= MAX_WORKERS

\* The pool is full while a submitted task waits for a worker.
C11_Witness ==
    /\ Cardinality(Running) = MAX_WORKERS
    /\ \E u \in Users : future[u] = "pending"

NothingScheduled == \A u \in Users : future[u] = "none"

\* C17: when the admin handle is not obtained main_handler returns
\* ("Admin Auth Failure", 500) and has made no directory listing call, scan
\* task or sink call; when the active-user list is empty it returns
\* ("No Users Found", 200) and has made no scan task or sink call.
C17_EarlyExitsDoNothingMore ==
    /\ result.msg = "Admin Auth Failure"
          => /\ result.code = 500
             /\ listCalls = 0
             /\ NothingScheduled
             /\ calls = <<>>
    /\ (pc = "done" /\ listCalls > 0 /\ all_users = <<>>)
          => /\ result = [msg |-> "No Users Found", code |-> 200]
             /\ NothingScheduled
             /\ calls = <<>>

\* The directory was listed in full, every account is suspended, and the
\* handler has returned.
C17_Witness ==
    /\ result.msg = "No Users Found"
    /\ listCalls = Len(DirectoryPages)
    /\ \A i \in 1..Len(directory) : directory[i].suspended

\* C19 as stated: no batch handed to the sink holds more records than the
\* size threshold.
C19_BatchWithinThreshold ==
    \A i \in 1..Len(calls) : Len(calls[i].batch) <= BQ_BATCH_SIZE

\* C19, amended: the threshold is a lower bound, not an upper one. A batch
\* handed to the sink by add is the whole buffer after the append, holds at
\* least BQ_BATCH_SIZE records and may hold more; no batch is empty.
C19_ThresholdIsLowerBound ==
    \A i \in 1..Len(calls) :
        /\ calls[i].batch # <<>>
        /\ calls[i].via = "add" => Len(calls[i].batch) >= BQ_BATCH_SIZE

\* add handed over a batch larger than the threshold.
C19_Witness ==
    \E i \in 1..Len(calls) :
        /\ calls[i].via = "add"
        /\ Len(calls[i].batch) > BQ_BATCH_SIZE

BatcherState == <<buffer, calls, sinceFlush, target, staging>>

\* One add (of one yielded future) or the trailing flush, in the main thread.
MainThreadBatcherStep ==
    /\ pc = "collect"
    /\ poolVars' = poolVars
    /\ \/ pc' = "collect" /\ Cardinality(collected' \ collected) = 1
       \/ pc' = "done" /\ collected' = collected

\* A step of the worker pool: a task starts or ends.
WorkerStep == poolVars' # poolVars

\* C20: the buffer is written by one add or one flush at a time, each a step
\* of the main thread, and no step of a scan task in the pool reads or
\* changes the buffer, whatever the order of the completions.
C20_BufferWritesSerialized ==
    [][/\ BatcherState' # BatcherState => MainThreadBatcherStep
       /\ WorkerStep => BatcherState' = BatcherState]_vars

\* The main thread has handed a batch to the sink while a scan task is still
\* running in the pool.
C20_Witness ==
    /\ calls # <<>>
    /\ \E u \in Users : future[u] = "running"

\* C18: every record of every batch handed to the sink has a non-empty
\* script_id, also when the file listing holds an entry without an id or with
\* an empty one.
C18_BatchScriptIdsNonEmpty ==
    \A i \in 1..Len(calls) :
        \A j \in 1..Len(calls[i].batch) :
            calls[i].batch[j].script_id \notin {"", None}

---------------------------------------------------------------------------
(***************************************************************************)
(* Properties of the cursor-following loops.                               *)
(***************************************************************************)

\* The items the remote listing serves, in source order.
LpListed == Concat(lp_pages)

\* The pages whose list call answered, when the loop ran to its end.
LpPagesRead == IF lp_fail = 0 THEN Len(lp_pages) ELSE lp_fail - 1

Count(seq, x) == Cardinality({i \in 1..Len(seq) : seq[i] = x})

IsSuspended(u) == "suspended" \in DOMAIN u /\ u.suspended

\* C12: whatever the mix and the page placement of active and suspended
\* entries, no task is ever submitted for a suspended user, and once the
\* listing has been read and the tasks submitted there is exactly one task
\* for each user that is not suspended.
C12_OneTaskPerActiveUser ==
    lp_mode = "dir" =>
        \A i \in 1..Len(LpListed) :
            LET u == LpListed[i]
                n == Count(lp_submitted, u.primaryEmail)
            IN /\ IsSuspended(u) => n = 0
               /\ (lp_pc = "submitted" /\ lp_fail = 0 /\ ~IsSuspended(u)) => n = 1

\* A suspended and an active user, served on two pages, and the tasks
\* submitted.
C12_Witness ==
    /\ lp_mode = "dir"
    /\ lp_pc = "submitted"
    /\ lp_fail = 0
    /\ Len(lp_pages) = 2
    /\ lp_pages[1] # <<>>
    /\ lp_pages[2] # <<>>
    /\ \E i \in 1..Len(LpListed) : IsSuspended(LpListed[i])
    /\ lp_submitted # <<>>

IsPrefix(p, q) == Len(p) <= Len(q) /\ SubSeq(q, 1, Len(p)) = p

\* C13: for every way of serving N items as pages, the loop processes the
\* served items in source order, each once; when no list call fails it has
\* processed exactly the N items when it returns, and it has made one list
\* call per page, the last being the first page without a next token.
C13_EveryItemOnceInOrder ==
    /\ IsPrefix(lp_seen, LpListed)
    /\ lp_listCalls <= Len(lp_pages)
    /\ (LpReturned /\ lp_fail = 0 /\ lp_auth = "ok")
          => /\ lp_seen = LpListed
             /\ lp_listCalls = Len(lp_pages)

\* A loop over two non-empty pages has returned.
C13_Witness ==
    /\ LpReturned
    /\ lp_fail = 0
    /\ lp_auth = "ok"
    /\ Len(lp_pages) = 2
    /\ lp_pages[1] # <<>>
    /\ lp_pages[2] # <<>>
    /\ lp_seen = LpListed

\* C14: when a list call fails on any page, nothing obtained from the pages
\* read before it is returned, by either loop.
C14_NoPartialResultOnListingFailure ==
    (LpReturned /\ lp_fail # 0) => lp_acc = <<>>

\* C15: in a scan whose handles were obtained, every file of every page read
\* is passed to get_manifest_content, in order, whatever the earlier files
\* gave, and the task returns one record for every file whose extraction
\* yields content.
C15_ItemFailureNeverAborts ==
    (lp_mode = "scan" /\ lp_auth = "ok" /\ LpReturned)
    => /\ lp_extracted = Concat([i \in 1..LpPagesRead |-> lp_pages[i]])
       /\ lp_acc = Concat([i \in 1..LpPagesRead |->
                              PageRows(lp_pages[i], ScannedUser, lp_content, now)])

\* The extraction failed for one script and a later script has its record in
\* the result.
C15_Witness ==
    /\ lp_mode = "scan"
    /\ LpReturned
    /\ \E i, j \in 1..Len(lp_extracted) :
          /\ i < j
          /\ lp_extracted[i] # None
          /\ lp_content[lp_extracted[i]] = "HttpError403"
          /\ \E k \in 1..Len(lp_acc) : lp_acc[k].script_id = lp_extracted[j]

=============================================================================
